---- MODULE Spec2Model ----
(***************************************************************************)
(* EasyNixie: driver of a daisy chain of nixie tube modules over a         *)
(* bit-serial link (clock SHCP, data DSIN, latch STCP, enable OUT_EN).     *)
(* The driver (src/EasyNixie.py, class EasyNixie) is modelled together     *)
(* with the chain it drives: per tube two cascaded 8-bit shift registers   *)
(* that shift on the rising clock edge and copy to their outputs on the    *)
(* rising latch edge.                                                      *)
(***************************************************************************)
EXTENDS Integers, Sequences, FiniteSets, TLC

VARIABLES
    num_tubes,          \* self.num_tubes
    display_buffer,     \* self.display_buffer: tuples <<digit, color, voltage, comma, dimming>>
    dimming_available,  \* self.dimming_available
    out_en_pwm,         \* self.out_en_pwm.duty_cycle, NoPWM when there is no PWMOut
    out_en,             \* self.out_en.value of the digital fallback: "unset" or "high"
    shcp,               \* self.shcp.value, the shift clock line
    stcp,               \* self.stcp.value, the latch line
    dsin,               \* self.dsin.value, the data line
    chain,              \* the bits held in the shift registers, nearest stage first
    latched,            \* the bits on the registers' outputs
    pc,                 \* position of the single thread of control
    frame,              \* the arguments of the call in progress
    i,                  \* loop variable of update_display and of slow_shift_out
    wire,               \* what the call in progress has put on the lines so far
    ncalls              \* number of calls made so far

vars == <<num_tubes, display_buffer, dimming_available, out_en_pwm, out_en,
          shcp, stcp, dsin, chain, latched, pc, frame, i, wire, ncalls>>

hwvars == <<out_en_pwm, out_en, shcp, stcp, dsin, chain, latched>>

----------------------------------------------------------------------------
\* Bounds of the model.
MaxTubes == 2
MaxCalls == 3

\* Colour constants.
EASY_NIXIE_BLUE == 1
EASY_NIXIE_GREEN == 2
EASY_NIXIE_RED == 3
EASY_NIXIE_WHITE == 4
EASY_NIXIE_RuB == 5
EASY_NIXIE_RuG == 6
EASY_NIXIE_BuG == 7

\* The digit value the driver uses for a blank tube.
BLANK == 10
\* PWMOut(..., frequency=1000, duty_cycle=65535): full duty.
FullDuty == 65535
\* out_en_pwm when PWMOut raised in the constructor and no PWM object exists.
NoPWM == -1

----------------------------------------------------------------------------
\* Bit arithmetic on 8-bit values.
Bit(v, k) == (v \div (2 ^ k)) % 2

\* a & b
BitAnd(a, b) ==
    LET m(k) == Bit(a, k) * Bit(b, k) * (2 ^ k)
    IN  m(0) + m(1) + m(2) + m(3) + m(4) + m(5) + m(6) + m(7)

\* a | b
BitOr(a, b) ==
    LET m(k) == (IF Bit(a, k) + Bit(b, k) > 0 THEN 1 ELSE 0) * (2 ^ k)
    IN  m(0) + m(1) + m(2) + m(3) + m(4) + m(5) + m(6) + m(7)

\* The duty cycle scaled by 256 steps instead of 255.
DutyCycleBy256(dimming) == (dimming * 65535) \div 256

\* int((dimming / 255.0) * 65535): for the levels 0..255 the float product
\* truncates to the exact quotient, dimming * 257.
DutyCycle(dimming) == (dimming * 65535) \div 255

----------------------------------------------------------------------------
\* The control byte with the WHITE mask clearing two color bits only, as RuG does.
SendTubeControlWhiteAsRuG(number, color, voltage, comma) ==
    LET b0 == \b00011100
        b1 == IF number = 8 THEN BitOr(b0, \b00000001) ELSE b0
        b2 == IF number = 9 THEN BitOr(b1, \b00000010) ELSE b1
        c1 == IF color = EASY_NIXIE_RED THEN BitAnd(b2, \b11101111) ELSE b2
        c2 == IF color = EASY_NIXIE_GREEN THEN BitAnd(c1, \b11110111) ELSE c1
        c3 == IF color = EASY_NIXIE_BLUE THEN BitAnd(c2, \b11111011) ELSE c2
        c4 == IF color = EASY_NIXIE_WHITE THEN BitAnd(c3, \b11100111) ELSE c3
        c5 == IF color = EASY_NIXIE_RuB THEN BitAnd(c4, \b11101011) ELSE c4
        c6 == IF color = EASY_NIXIE_RuG THEN BitAnd(c5, \b11100111) ELSE c5
        c7 == IF color = EASY_NIXIE_BuG THEN BitAnd(c6, \b11110011) ELSE c6
        v1 == IF voltage THEN BitOr(c7, \b00100000) ELSE c7
    IN  IF comma THEN BitOr(v1, \b01000000) ELSE v1

\* The control byte with the voltage flag put on bit 4, a color bit.
SendTubeControlVoltageBit4(number, color, voltage, comma) ==
    LET b0 == \b00011100
        b1 == IF number = 8 THEN BitOr(b0, \b00000001) ELSE b0
        b2 == IF number = 9 THEN BitOr(b1, \b00000010) ELSE b1
        c1 == IF color = EASY_NIXIE_RED THEN BitAnd(b2, \b11101111) ELSE b2
        c2 == IF color = EASY_NIXIE_GREEN THEN BitAnd(c1, \b11110111) ELSE c1
        c3 == IF color = EASY_NIXIE_BLUE THEN BitAnd(c2, \b11111011) ELSE c2
        c4 == IF color = EASY_NIXIE_WHITE THEN BitAnd(c3, \b11100011) ELSE c3
        c5 == IF color = EASY_NIXIE_RuB THEN BitAnd(c4, \b11101011) ELSE c4
        c6 == IF color = EASY_NIXIE_RuG THEN BitAnd(c5, \b11100111) ELSE c5
        c7 == IF color = EASY_NIXIE_BuG THEN BitAnd(c6, \b11110011) ELSE c6
        v1 == IF voltage THEN BitOr(c7, \b00010000) ELSE c7
    IN  IF comma THEN BitOr(v1, \b01000000) ELSE v1

\* The two register bytes of one tube, as _send_tube_data builds them.
SendTubeControl(number, color, voltage, comma) ==
    LET b0 == \b00011100
        b1 == IF number = 8 THEN BitOr(b0, \b00000001) ELSE b0
        b2 == IF number = 9 THEN BitOr(b1, \b00000010) ELSE b1
        c1 == IF color = EASY_NIXIE_RED THEN BitAnd(b2, \b11101111) ELSE b2
        c2 == IF color = EASY_NIXIE_GREEN THEN BitAnd(c1, \b11110111) ELSE c1
        c3 == IF color = EASY_NIXIE_BLUE THEN BitAnd(c2, \b11111011) ELSE c2
        c4 == IF color = EASY_NIXIE_WHITE THEN BitAnd(c3, \b11100011) ELSE c3
        c5 == IF color = EASY_NIXIE_RuB THEN BitAnd(c4, \b11101011) ELSE c4
        c6 == IF color = EASY_NIXIE_RuG THEN BitAnd(c5, \b11100111) ELSE c5
        c7 == IF color = EASY_NIXIE_BuG THEN BitAnd(c6, \b11110011) ELSE c6
        v1 == IF voltage THEN BitOr(c7, \b00100000) ELSE c7
    IN  IF comma THEN BitOr(v1, \b01000000) ELSE v1

\* The digit byte with the cathodes counted from one: digit d drives bit d - 1.
SendTubeDigitFromOne(number) == IF 0 < number /\ number <= 8 THEN 2 ^ (number - 1) ELSE 0

\* The digit byte with seven cathodes only: digit 7 drives none.
SendTubeDigitSevenCathodes(number) == IF number < 7 THEN 2 ^ number ELSE 0

SendTubeDigit(number) == IF number < 8 THEN 2 ^ number ELSE 0

\* The same two bytes, as set_nixie builds them.
SetNixieControl(number, color, voltage, comma) ==
    LET b0 == \b00011100
        b1 == IF number = 8 THEN BitOr(b0, \b00000001) ELSE b0
        b2 == IF number = 9 THEN BitOr(b1, \b00000010) ELSE b1
        c1 == IF color = EASY_NIXIE_RED THEN BitAnd(b2, \b11101111) ELSE b2
        c2 == IF color = EASY_NIXIE_GREEN THEN BitAnd(c1, \b11110111) ELSE c1
        c3 == IF color = EASY_NIXIE_BLUE THEN BitAnd(c2, \b11111011) ELSE c2
        c4 == IF color = EASY_NIXIE_WHITE THEN BitAnd(c3, \b11100011) ELSE c3
        c5 == IF color = EASY_NIXIE_RuB THEN BitAnd(c4, \b11101011) ELSE c4
        c6 == IF color = EASY_NIXIE_RuG THEN BitAnd(c5, \b11100111) ELSE c5
        c7 == IF color = EASY_NIXIE_BuG THEN BitAnd(c6, \b11110011) ELSE c6
        v1 == IF voltage THEN BitOr(c7, \b00100000) ELSE c7
    IN  IF comma THEN BitOr(v1, \b01000000) ELSE v1

SetNixieDigit(number) == IF number < 8 THEN 2 ^ number ELSE 0

----------------------------------------------------------------------------
\* The lines and the chain behind them, as one record the pin writes act on.
HW == [shcp |-> shcp, stcp |-> stcp, dsin |-> dsin, pwm |-> out_en_pwm,
       chain |-> chain, latched |-> latched, wire |-> wire]

\* self.stcp.value = v: on a rising edge the outputs take the chain's bits.
WriteStcp(h, v) ==
    [h EXCEPT !.stcp = v,
              !.latched = IF ~h.stcp /\ v THEN h.chain ELSE @,
              !.wire = Append(@, <<"stcp", IF v THEN 1 ELSE 0>>)]

\* self.out_en_pwm.duty_cycle = d
WritePwm(h, d) == [h EXCEPT !.pwm = d, !.wire = Append(@, <<"pwm", d>>)]

\* The bits of data_byte in the order slow_shift_out puts them on the data line:
\* bit_pos = 7 - i for i in range(8).
ByteBits(data_byte) == [k \in 1..8 |-> Bit(data_byte, 7 - (k - 1))]

\* The chain after the bits of s were clocked in one after the other: each rising
\* clock edge moves every bit one stage on and puts the data line in stage 1.
ClockIn(ch, s) ==
    [p \in 1..Len(ch) |-> IF p <= Len(s) THEN s[Len(s) + 1 - p] ELSE ch[p - Len(s)]]

\* The bits taken least significant first: bit_pos = i.
ShiftBitLsbFirst(data_byte, k) == Bit(data_byte, k) = 1

\* slow_shift_out: bit_pos = 7 - i; bit_value = (data_byte >> bit_pos) & 1
ShiftBit(data_byte, k) == Bit(data_byte, 7 - k) = 1

\* self.dsin.value = v
WriteDsin(h, v) == [h EXCEPT !.dsin = v]

\* self.shcp.value = v: a rising edge shifts the chain by one stage, takes the data
\* line into stage 1, and is seen on the lines as one clock pulse.
WriteShcp(h, v) ==
    LET rising == ~h.shcp /\ v
        b == IF h.dsin THEN 1 ELSE 0
    IN  [h EXCEPT !.shcp = v,
                  !.chain = IF rising THEN ClockIn(@, <<b>>) ELSE @,
                  !.wire = IF rising THEN Append(@, <<"clk", b>>) ELSE @]

\* slow_shift_out: per bit, the data line is written, then the clock is raised and
\* lowered.  Raising the clock is a rising edge unless the clock was already high,
\* which only the first bit can find.
slow_shift_out(h, data_byte) ==
    LET bits == ByteBits(data_byte)
        edges == IF h.shcp THEN SubSeq(bits, 2, 8) ELSE bits
    IN  [h EXCEPT !.dsin = (bits[8] = 1),
                  !.shcp = FALSE,
                  !.chain = ClockIn(@, edges),
                  !.wire = @ \o [k \in 1..Len(edges) |-> <<"clk", edges[k]>>]]

\* _send_tube_data with the two slow_shift_out calls in the other order.
SendTubeDataDigitFirst(h, number, color, voltage, comma) ==
    slow_shift_out(slow_shift_out(h, SendTubeDigit(number)),
                   SendTubeControl(number, color, voltage, comma))

_send_tube_data(h, number, color, voltage, comma) ==
    slow_shift_out(slow_shift_out(h, SendTubeControl(number, color, voltage, comma)),
                   SendTubeDigit(number))

SetHW(h) ==
    /\ shcp' = h.shcp
    /\ stcp' = h.stcp
    /\ dsin' = h.dsin
    /\ out_en_pwm' = h.pwm
    /\ chain' = h.chain
    /\ latched' = h.latched
    /\ wire' = h.wire

----------------------------------------------------------------------------
\* The display buffer.
BlankTube(color, dimming) == <<BLANK, color, TRUE, FALSE, dimming>>

\* set_tube with only the upper bound checked: a negative index then counts from
\* the end of the list.
SetTubeBufferNoLowerBound(buf, n, tube_index, number, color, voltage, comma, dimming) ==
    IF tube_index < n /\ -n <= tube_index
    THEN [buf EXCEPT ![(tube_index % n) + 1] = <<number, color, voltage, comma, dimming>>]
    ELSE buf

\* set_tube: the guarded assignment to self.display_buffer[tube_index].
SetTubeBuffer(buf, n, tube_index, number, color, voltage, comma, dimming) ==
    IF 0 <= tube_index /\ tube_index < n
    THEN [buf EXCEPT ![tube_index + 1] = <<number, color, voltage, comma, dimming>>]
    ELSE buf

\* str(n) of a non-negative integer, as the sequence of its digit characters.
RECURSIVE DecimalString(_)
DecimalString(n) == IF n < 10 THEN <<n>> ELSE Append(DecimalString(n \div 10), n % 10)

\* str(number) taken for every number: a negative one keeps its sign, a character
\* that is no digit (written -1 here).
NumStrSigned(number) ==
    IF number < 0 THEN <<-1>> \o DecimalString(-number) ELSE DecimalString(number)

\* set_number: "Convert number to string".
NumStr(number) == IF number < 0 THEN DecimalString(-number) ELSE DecimalString(number)

\* digit_char.isdigit()
IsDigit(digit_char) == digit_char \in 0..9

\* The clearing loop blanking the digits only.
ClearBufferDigitsOnly(buf, n, color, dimming) ==
    [p \in 1..n |-> <<BLANK, buf[p][2], buf[p][3], buf[p][4], buf[p][5]>>]

\* set_number: "Clear display buffer".
ClearBuffer(buf, n, color, dimming) == [p \in 1..n |-> BlankTube(color, dimming)]

\* The fill loop with tube_pos = i: the ones digit goes to index 0.
RECURSIVE FillDigitsFromIndex0(_, _, _, _, _, _)
FillDigitsFromIndex0(buf, n, num_str, k, color, dimming) ==
    IF k >= Len(num_str) THEN buf
    ELSE LET digit_char == num_str[Len(num_str) - k]
             tube_pos == k
             nxt == IF tube_pos < n /\ IsDigit(digit_char)
                    THEN [buf EXCEPT ![tube_pos + 1] = <<digit_char, color, TRUE, FALSE, dimming>>]
                    ELSE buf
         IN  FillDigitsFromIndex0(nxt, n, num_str, k + 1, color, dimming)

\* set_number: "Fill from right to left", the loop over enumerate(reversed(num_str)).
RECURSIVE FillDigits(_, _, _, _, _, _)
FillDigits(buf, n, num_str, k, color, dimming) ==
    IF k >= Len(num_str) THEN buf
    ELSE LET digit_char == num_str[Len(num_str) - k]
             tube_pos == n - 1 - k
             nxt == IF tube_pos >= 0 /\ IsDigit(digit_char)
                    THEN [buf EXCEPT ![tube_pos + 1] = <<digit_char, color, TRUE, FALSE, dimming>>]
                    ELSE buf
         IN  FillDigits(nxt, n, num_str, k + 1, color, dimming)

\* set_number: "Handle leading zeros", the loop over range(num_tubes - len(num_str)).
RECURSIVE LeadingZeros(_, _, _, _, _, _)
LeadingZeros(buf, n, num_str, k, color, dimming) ==
    IF k >= n - Len(num_str) THEN buf
    ELSE LET nxt == IF buf[k + 1][1] = BLANK
                    THEN [buf EXCEPT ![k + 1] = <<0, color, TRUE, FALSE, dimming>>]
                    ELSE buf
         IN  LeadingZeros(nxt, n, num_str, k + 1, color, dimming)

SetNumberBuffer(buf, n, number, color, leading_zeros, dimming) ==
    LET num_str == NumStr(number)
        cleared == ClearBuffer(buf, n, color, dimming)
        filled == FillDigits(cleared, n, num_str, 0, color, dimming)
    IN  IF leading_zeros THEN LeadingZeros(filled, n, num_str, 0, color, dimming) ELSE filled

----------------------------------------------------------------------------
\* The loop running over range(num_tubes): pass idx sends tube num_tubes-1-idx.
UpdateDisplayPassAscending(h, buf, idx, pwm_ok) ==
    LET t == buf[Len(buf) - idx]
        h1 == IF pwm_ok THEN WritePwm(h, DutyCycle(t[5])) ELSE h
    IN  _send_tube_data(h1, t[1], t[2], t[3], t[4])

\* The loop with latch() called inside it, after every tube.
UpdateDisplayPassLatching(h, buf, idx, pwm_ok) ==
    LET t == buf[idx + 1]
        h1 == IF pwm_ok THEN WritePwm(h, DutyCycle(t[5])) ELSE h
    IN  WriteStcp(WriteStcp(_send_tube_data(h1, t[1], t[2], t[3], t[4]), FALSE), TRUE)

\* The loop with the duty cycle written in its first pass only.
UpdateDisplayPassDimOnce(h, buf, idx, pwm_ok) ==
    LET t == buf[idx + 1]
        h1 == IF pwm_ok /\ idx = Len(buf) - 1 THEN WritePwm(h, DutyCycle(t[5])) ELSE h
    IN  _send_tube_data(h1, t[1], t[2], t[3], t[4])

\* The loop writing the duty cycle without asking dimming_available first.
UpdateDisplayPassAlwaysPwm(h, buf, idx, pwm_ok) ==
    LET t == buf[idx + 1]
        h1 == WritePwm(h, DutyCycle(t[5]))
    IN  _send_tube_data(h1, t[1], t[2], t[3], t[4])

\* One pass of the loop of update_display, for loop variable idx.
UpdateDisplayPass(h, buf, idx, pwm_ok) ==
    LET t == buf[idx + 1]
        h1 == IF pwm_ok THEN WritePwm(h, DutyCycle(t[5])) ELSE h
    IN  _send_tube_data(h1, t[1], t[2], t[3], t[4])

\* set_nixie shifting the digit byte first and the control byte second.
SetNixieBodyDigitFirst(h, number, color, voltage, comma, dimming, pwm_ok) ==
    LET h1 == IF pwm_ok THEN WritePwm(h, DutyCycle(dimming)) ELSE h
        h2 == slow_shift_out(h1, SetNixieDigit(number))
    IN  slow_shift_out(h2, SetNixieControl(number, color, voltage, comma))

\* The body of set_nixie.
SetNixieBody(h, number, color, voltage, comma, dimming, pwm_ok) ==
    LET h1 == IF pwm_ok THEN WritePwm(h, DutyCycle(dimming)) ELSE h
        h2 == slow_shift_out(h1, SetNixieControl(number, color, voltage, comma))
    IN  slow_shift_out(h2, SetNixieDigit(number))

----------------------------------------------------------------------------
NoFrame == [op |-> "none", tube_index |-> 0, number |-> 0, color |-> 0,
            voltage |-> FALSE, comma |-> FALSE, dimming |-> 0, leading_zeros |-> FALSE,
            data_byte |-> 0]

\* Arguments the calls are made with.
TubeArgs == { <<3, EASY_NIXIE_RED, TRUE, FALSE, 255>>,
              <<9, EASY_NIXIE_BuG, FALSE, TRUE, 128>>,
              <<12, EASY_NIXIE_GREEN, TRUE, TRUE, 0>> }
NumberArgs == { <<42, EASY_NIXIE_WHITE, FALSE, 255>>, <<7, EASY_NIXIE_RED, TRUE, 64>> }
NixieArgs == { <<8, EASY_NIXIE_BLUE, TRUE, TRUE, 255>>, <<5, EASY_NIXIE_RuG, FALSE, FALSE, 64>> }
Values == {0, 7, 42, 137, 2024, -7, -42, -2024}
NumberColors == {EASY_NIXIE_WHITE, EASY_NIXIE_RED}
NumberDimmings == {64, 255}
PowerUpBits == {0, 1}
\* Every visual state of a tube: the digits, blank (10 and above), the seven colors,
\* both flags, at two brightness levels.
Digits == 0..11
Colors == {EASY_NIXIE_BLUE, EASY_NIXIE_GREEN, EASY_NIXIE_RED, EASY_NIXIE_WHITE,
           EASY_NIXIE_RuB, EASY_NIXIE_RuG, EASY_NIXIE_BuG}
EncodeDimmings == {64, 255}
TubeStates == Digits \X Colors \X BOOLEAN \X BOOLEAN \X EncodeDimmings
\* Every brightness level, on one tube state.
Levels == 0..255
LevelStates == {<<3, EASY_NIXIE_WHITE, TRUE, FALSE, d>> : d \in Levels}
\* Every byte value.
Bytes == 0..255

\* __init__: the state after construction.  The PWMOut either exists or raised;
\* the registers hold whatever they powered up with.
Init ==
    /\ num_tubes \in 1..MaxTubes
    /\ display_buffer = [p \in 1..num_tubes |-> BlankTube(EASY_NIXIE_WHITE, 0)]
    /\ dimming_available \in BOOLEAN
    /\ out_en_pwm = IF dimming_available THEN FullDuty ELSE NoPWM
    /\ out_en = IF dimming_available THEN "unset" ELSE "high"
    /\ shcp = FALSE
    /\ stcp = FALSE
    /\ dsin = FALSE
    /\ \E b \in PowerUpBits :
          /\ chain = [k \in 1..(16 * num_tubes) |-> b]
          /\ latched = [k \in 1..(16 * num_tubes) |-> b]
    /\ pc = "idle"
    /\ frame = NoFrame
    /\ i = 0
    /\ wire = <<>>
    /\ ncalls = 0

\* A call from the idle driver: the arguments are bound, nothing else happens yet.
Call(f) ==
    /\ pc = "idle"
    /\ ncalls < MaxCalls
    /\ pc' = f.op
    /\ frame' = f
    /\ ncalls' = ncalls + 1
    /\ UNCHANGED <<num_tubes, display_buffer, dimming_available, hwvars, out_en, i, wire>>

call_set_tube(tube_index, t) ==
    Call([NoFrame EXCEPT !.op = "set_tube", !.tube_index = tube_index, !.number = t[1],
                         !.color = t[2], !.voltage = t[3], !.comma = t[4], !.dimming = t[5]])

call_set_number(number, color, leading_zeros, dimming) ==
    Call([NoFrame EXCEPT !.op = "set_number", !.number = number, !.color = color,
                         !.leading_zeros = leading_zeros, !.dimming = dimming])

call_set_nixie(t) ==
    Call([NoFrame EXCEPT !.op = "set_nixie", !.number = t[1], !.color = t[2],
                         !.voltage = t[3], !.comma = t[4], !.dimming = t[5]])

call_slow_shift_out(data_byte) ==
    Call([NoFrame EXCEPT !.op = "slow_shift_out", !.data_byte = data_byte])

call_update_display == Call([NoFrame EXCEPT !.op = "update_display"])

call_latch == Call([NoFrame EXCEPT !.op = "latch"])

call_clear == Call([NoFrame EXCEPT !.op = "clear"])

\* set_tube applying the brightness to the enable line at once.
set_tube_writes_pwm ==
    /\ pc = "set_tube"
    /\ display_buffer' = SetTubeBuffer(display_buffer, num_tubes, frame.tube_index,
                             frame.number, frame.color, frame.voltage, frame.comma,
                             frame.dimming)
    /\ out_en_pwm' = IF dimming_available THEN DutyCycle(frame.dimming) ELSE out_en_pwm
    /\ pc' = "ret"
    /\ UNCHANGED <<num_tubes, dimming_available, out_en, shcp, stcp, dsin, chain, latched,
                   frame, i, wire, ncalls>>

set_tube ==
    /\ pc = "set_tube"
    /\ display_buffer' = SetTubeBuffer(display_buffer, num_tubes, frame.tube_index,
                             frame.number, frame.color, frame.voltage, frame.comma,
                             frame.dimming)
    /\ pc' = "ret"
    /\ UNCHANGED <<num_tubes, dimming_available, hwvars, frame, i, wire, ncalls>>

set_number ==
    /\ pc = "set_number"
    /\ display_buffer' = SetNumberBuffer(display_buffer, num_tubes, frame.number,
                             frame.color, frame.leading_zeros, frame.dimming)
    /\ pc' = "ret"
    /\ UNCHANGED <<num_tubes, dimming_available, hwvars, frame, i, wire, ncalls>>

set_nixie ==
    /\ pc = "set_nixie"
    /\ SetHW(SetNixieBody(HW, frame.number, frame.color, frame.voltage, frame.comma,
                          frame.dimming, dimming_available))
    /\ pc' = "ret"
    /\ UNCHANGED <<num_tubes, display_buffer, dimming_available, out_en, frame, i, ncalls>>

\* update_display is entered: range(self.num_tubes - 1, -1, -1) starts.
update_display ==
    /\ pc = "update_display"
    /\ i' = num_tubes - 1
    /\ pc' = "update_display_loop"
    /\ UNCHANGED <<num_tubes, display_buffer, dimming_available, hwvars, frame, wire, ncalls>>

\* One pass of the loop; after the last one latch() is called.
update_display_loop ==
    /\ pc = "update_display_loop"
    /\ i >= 0
    /\ SetHW(UpdateDisplayPass(HW, display_buffer, i, dimming_available))
    /\ i' = i - 1
    /\ pc' = IF i - 1 >= 0 THEN "update_display_loop" ELSE "latch"
    /\ UNCHANGED <<num_tubes, display_buffer, dimming_available, out_en, frame, ncalls>>

\* latch: self.stcp.value = False
latch ==
    /\ pc = "latch"
    /\ SetHW(WriteStcp(HW, FALSE))
    /\ pc' = "latch_high"
    /\ UNCHANGED <<num_tubes, display_buffer, dimming_available, out_en, frame, i, ncalls>>

\* latch ending with a symmetric pulse: the line is raised and lowered again.
latch_high_returns_low ==
    /\ pc = "latch_high"
    /\ SetHW(WriteStcp(WriteStcp(HW, TRUE), FALSE))
    /\ pc' = "ret"
    /\ UNCHANGED <<num_tubes, display_buffer, dimming_available, out_en, frame, i, ncalls>>

\* latch: self.stcp.value = True, after the settling delay
latch_high ==
    /\ pc = "latch_high"
    /\ SetHW(WriteStcp(HW, TRUE))
    /\ pc' = "ret"
    /\ UNCHANGED <<num_tubes, display_buffer, dimming_available, out_en, frame, i, ncalls>>

\* clear resetting the buffer and returning without update_display.
clear_without_render ==
    /\ pc = "clear"
    /\ display_buffer' = [p \in 1..num_tubes |-> BlankTube(EASY_NIXIE_WHITE, 0)]
    /\ pc' = "ret"
    /\ UNCHANGED <<num_tubes, dimming_available, hwvars, frame, i, wire, ncalls>>

\* clear: the buffer is reset, then update_display is called.
clear ==
    /\ pc = "clear"
    /\ display_buffer' = [p \in 1..num_tubes |-> BlankTube(EASY_NIXIE_WHITE, 0)]
    /\ pc' = "update_display"
    /\ UNCHANGED <<num_tubes, dimming_available, hwvars, frame, i, wire, ncalls>>

\* slow_shift_out is entered: range(8) starts.
shift_begin ==
    /\ pc = "slow_shift_out"
    /\ i' = 0
    /\ pc' = "shift_data"
    /\ UNCHANGED <<num_tubes, display_buffer, dimming_available, hwvars, frame, wire, ncalls>>

\* slow_shift_out: self.dsin.value = bool(bit_value)
shift_data ==
    /\ pc = "shift_data"
    /\ SetHW(WriteDsin(HW, ShiftBit(frame.data_byte, i)))
    /\ pc' = "shift_clock_high"
    /\ UNCHANGED <<num_tubes, display_buffer, dimming_available, out_en, frame, i, ncalls>>

\* slow_shift_out: self.shcp.value = True
shift_clock_high ==
    /\ pc = "shift_clock_high"
    /\ SetHW(WriteShcp(HW, TRUE))
    /\ pc' = "shift_clock_low"
    /\ UNCHANGED <<num_tubes, display_buffer, dimming_available, out_en, frame, i, ncalls>>

\* slow_shift_out: self.shcp.value = False, and the next pass of the loop or the return
shift_clock_low ==
    /\ pc = "shift_clock_low"
    /\ SetHW(WriteShcp(HW, FALSE))
    /\ i' = i + 1
    /\ pc' = IF i + 1 < 8 THEN "shift_data" ELSE "ret"
    /\ UNCHANGED <<num_tubes, display_buffer, dimming_available, out_en, frame, ncalls>>

\* The call returns to the idle caller.
Return ==
    /\ pc = "ret"
    /\ pc' = "idle"
    /\ frame' = NoFrame
    /\ i' = 0
    /\ wire' = <<>>
    /\ UNCHANGED <<num_tubes, display_buffer, dimming_available, hwvars, ncalls>>

Next ==
    \/ \E tube_index \in -1..num_tubes, t \in TubeArgs : call_set_tube(tube_index, t)
    \/ \E a \in NumberArgs : call_set_number(a[1], a[2], a[3], a[4])
    \/ \E t \in NixieArgs : call_set_nixie(t)
    \/ call_update_display
    \/ call_latch
    \/ call_clear
    \/ set_tube
    \/ set_number
    \/ set_nixie
    \/ update_display
    \/ update_display_loop
    \/ latch
    \/ latch_high
    \/ clear
    \/ Return

Spec == Init /\ [][Next]_vars

\* The staging calls alone, over a wider range of arguments.
NextNumber ==
    \/ \E tube_index \in -1..num_tubes, t \in TubeArgs : call_set_tube(tube_index, t)
    \/ \E v \in Values, c \in NumberColors, z \in BOOLEAN, d \in NumberDimmings :
          call_set_number(v, c, z, d)
    \/ set_tube
    \/ set_number
    \/ Return

SpecNumber == Init /\ [][NextNumber]_vars

\* The encoders over every tube state: one set_nixie, or one set_tube of the tube
\* furthest down the chain and the render after it, on the driver as constructed.
NextEncode ==
    \/ ncalls = 0 /\ \E t \in TubeStates : call_set_nixie(t)
    \/ ncalls = 0 /\ \E t \in TubeStates : call_set_tube(num_tubes - 1, t)
    \/ ncalls = 1 /\ call_update_display
    \/ set_tube
    \/ set_nixie
    \/ update_display
    \/ update_display_loop
    \/ latch
    \/ latch_high
    \/ Return

SpecEncode == Init /\ [][NextEncode]_vars

\* The same calls over every brightness level.
NextDuty ==
    \/ ncalls = 0 /\ \E t \in LevelStates : call_set_nixie(t)
    \/ ncalls = 0 /\ \E t \in LevelStates : call_set_tube(0, t)
    \/ ncalls = 1 /\ call_update_display
    \/ set_tube
    \/ set_nixie
    \/ update_display
    \/ update_display_loop
    \/ latch
    \/ latch_high
    \/ Return

SpecDuty == Init /\ [][NextDuty]_vars

\* slow_shift_out called on its own with every byte value, one line write per step,
\* on the driver as constructed or after one latch call, and a latch call after it.
NextShift ==
    \/ (ncalls = 0 \/ (ncalls = 1 /\ stcp)) /\ \E data_byte \in Bytes :
                                                   call_slow_shift_out(data_byte)
    \/ (ncalls = 0 \/ (ncalls = 1 /\ ~stcp)) /\ call_latch
    \/ shift_begin
    \/ shift_data
    \/ shift_clock_high
    \/ shift_clock_low
    \/ latch
    \/ latch_high
    \/ Return

SpecShift == Init /\ [][NextShift]_vars

----------------------------------------------------------------------------
\* What the claims are stated with.

Abs(v) == IF v < 0 THEN -v ELSE v

\* Number of decimal digits of a non-negative value, and its j-th digit (0 = ones).
NumDigits(v) == CHOOSE k \in 1..12 : v < 10 ^ k /\ (k = 1 \/ v >= 10 ^ (k - 1))
DecimalDigit(v, j) == (v \div (10 ^ j)) % 10

\* The 16 bits one tube holds for state t: the register nearer the controller holds
\* the byte shifted last (the digit byte), the one behind it the control byte; in
\* each register the bit shifted last (bit 0) is nearest.
TubeBits(t) ==
    [k \in 1..16 |-> IF k <= 8 THEN Bit(SendTubeDigit(t[1]), k - 1)
                     ELSE Bit(SendTubeControl(t[1], t[2], t[3], t[4]), k - 9)]

\* The bits of stage group idx (tube idx) of a chain.
TubeOf(bits, idx) == [k \in 1..16 |-> bits[16 * idx + k]]

\* The clock pulses of one tube: control byte, then digit byte, each MSB first.
TubeClocks(t) ==
    [k \in 1..16 |-> <<"clk", IF k <= 8
                              THEN Bit(SendTubeControl(t[1], t[2], t[3], t[4]), 8 - k)
                              ELSE Bit(SendTubeDigit(t[1]), 16 - k)>>]

\* The clock pulses of tubes idx, idx - 1, ..., 0 in that order.
RECURSIVE ClocksDownFrom(_, _)
ClocksDownFrom(buf, idx) ==
    IF idx < 0 THEN <<>> ELSE TubeClocks(buf[idx + 1]) \o ClocksDownFrom(buf, idx - 1)

LatchPulse == << <<"stcp", 0>>, <<"stcp", 1>> >>

RenderEvents(buf) == ClocksDownFrom(buf, Len(buf) - 1) \o LatchPulse

IsLineEvent(e) == e[1] # "pwm"
LineEvents == SelectSeq(wire, IsLineEvent)

IsPrefix(s, t) == Len(s) <= Len(t) /\ s = SubSeq(t, 1, Len(s))

Rendering == frame.op \in {"update_display", "clear"}
RenderDone == pc = "ret" /\ Rendering
DefaultTube == <<BLANK, EASY_NIXIE_WHITE, TRUE, FALSE, 0>>

----------------------------------------------------------------------------
\* C1: one render puts on the lines, for i = N-1 down to 0, the 8 bits of tube i's
\* control byte and then the 8 bits of its digit byte (16*N clock pulses), and then
\* one latch pulse (low, high) after the last bit; while the tubes are being shifted
\* the latch line is not written.
C1_RenderSequence ==
    (Rendering /\ pc # "clear") =>
        /\ IsPrefix(LineEvents, RenderEvents(display_buffer))
        /\ pc = "update_display_loop" =>
              /\ LineEvents = SubSeq(RenderEvents(display_buffer), 1, 16 * (num_tubes - 1 - i))
        /\ pc = "ret" =>
              /\ LineEvents = RenderEvents(display_buffer)
              /\ Len(LineEvents) = 16 * num_tubes + 2

C1_Witness ==
    /\ pc = "ret"
    /\ frame.op = "update_display"
    /\ num_tubes = 2
    /\ display_buffer[1] # display_buffer[2]
    /\ display_buffer[1][1] = 9

----------------------------------------------------------------------------
\* C2: when a render has completed, the 16 bits on the outputs of every tube i are
\* the encoding (control byte, digit byte) of display_buffer[i], whatever the chain
\* and the outputs held before.
C2_LatchedMatchesBuffer ==
    RenderDone =>
        \A idx \in 0..(num_tubes - 1) :
            TubeOf(latched, idx) = TubeBits(display_buffer[idx + 1])

C2_Witness ==
    /\ RenderDone
    /\ frame.op = "update_display"
    /\ num_tubes = 2
    /\ TubeBits(display_buffer[1]) # TubeBits(display_buffer[2])
    /\ ncalls = 3

----------------------------------------------------------------------------
\* C3 as claimed: from the start of a render to the rising latch edge neither the
\* outputs of any tube nor the PWM duty of the enable line change.
C3_NothingVisibleBeforeLatch ==
    [][(Rendering /\ pc \in {"update_display", "update_display_loop", "latch"})
          => (latched' = latched /\ out_en_pwm' = out_en_pwm)]_vars

\* C3, amended: the outputs of the tubes change only in the step that raises the
\* latch line, which in a render is the last step, after every tube was shifted; up
\* to it a render leaves the outputs of all tubes as they were.  (The PWM duty is
\* written inside the loop, before that step.)
C3_OutputsChangeOnlyAtLatch ==
    [][/\ (latched' # latched) => (pc = "latch_high" /\ ~stcp /\ stcp' /\ pc' = "ret")
       /\ (Rendering /\ pc \in {"update_display", "update_display_loop", "latch"})
             => latched' = latched]_vars

C3_Witness ==
    /\ Rendering
    /\ pc = "latch_high"
    /\ num_tubes = 2
    /\ chain # latched
    /\ dimming_available
    /\ out_en_pwm = DutyCycle(128)

----------------------------------------------------------------------------
\* C4: with the PWM backend, when a render has completed the duty cycle is the one
\* of the brightness stored for tube 0, the tube the loop handles last, whatever
\* brightness the other tubes store.
C4_DutyOfLastRenderedTube ==
    (RenderDone /\ dimming_available) => out_en_pwm = DutyCycle(display_buffer[1][5])

C4_Witness ==
    /\ RenderDone
    /\ dimming_available
    /\ num_tubes = 2
    /\ display_buffer[1][5] # display_buffer[2][5]
    /\ display_buffer[1][5] = 128

----------------------------------------------------------------------------
\* C5: a call of set_tube or set_number, from its entry to its return, leaves the
\* clock, data, latch and enable lines, the PWM duty, the bits in the chain and the
\* outputs of the tubes unchanged.
C5_SettersTouchNoHardware ==
    [][(frame.op \in {"set_tube", "set_number"} \/ frame'.op \in {"set_tube", "set_number"})
          => UNCHANGED hwvars]_vars

C5_Witness ==
    /\ pc = "ret"
    /\ frame.op = "set_tube"
    /\ frame.tube_index = 0
    /\ dimming_available
    /\ out_en_pwm # DutyCycle(frame.dimming)
    /\ chain # latched
    /\ stcp

----------------------------------------------------------------------------
\* The tube set_number is to leave at buffer index idx for value v (v >= 0) on a
\* chain of n tubes: digit j = n-1-idx of v where v has one, else 0 or blank.
NumberTube(n, idx, v, color, leading_zeros, dimming) ==
    LET j == n - 1 - idx
    IN  << IF j < NumDigits(v) THEN DecimalDigit(v, j)
           ELSE IF leading_zeros THEN 0 ELSE BLANK,
           color, TRUE, FALSE, dimming >>

SetNumberDone == pc = "ret" /\ frame.op = "set_number"

\* C6: after set_number of a non-negative value with decimal digits d_(k-1)..d_0 the
\* buffer still has N entries and the entry at index N-1-j holds digit d_j for every
\* j < min(k, N); the digits d_j with j >= N are not buffered anywhere and the call
\* returns normally.
C6_DigitsRightToLeft ==
    (SetNumberDone /\ frame.number >= 0) =>
        LET v == frame.number
            k == NumDigits(v)
            kept == IF k < num_tubes THEN k ELSE num_tubes
        IN  /\ Len(display_buffer) = num_tubes
            /\ \A j \in 0..(kept - 1) :
                  display_buffer[(num_tubes - 1 - j) + 1][1] = DecimalDigit(v, j)

C6_Witness ==
    /\ SetNumberDone
    /\ frame.number = 137
    /\ num_tubes = 2
    /\ display_buffer[1][1] = 3
    /\ display_buffer[2][1] = 7

----------------------------------------------------------------------------
\* C7: set_number buffers the ones digit of the value at buffer index 0, the tube
\* set_tube and the data model call the rightmost, the tens digit at index 1, and so
\* on.
C7_OnesDigitAtIndex0 ==
    SetNumberDone =>
        LET v == Abs(frame.number)
            k == NumDigits(v)
            kept == IF k < num_tubes THEN k ELSE num_tubes
        IN  \A j \in 0..(kept - 1) : display_buffer[j + 1][1] = DecimalDigit(v, j)

----------------------------------------------------------------------------
\* C8: after set_number(value, color, leading_zeros, brightness) every tube holds
\* the given color and brightness, voltage on and no comma; a tube that got no digit
\* of the value holds 0 if leading_zeros is set and is blank if not; so the buffer
\* is a function of the arguments and the chain length alone, whatever it held
\* before.
C8_SetNumberResult ==
    SetNumberDone =>
        /\ Len(display_buffer) = num_tubes
        /\ \A idx \in 0..(num_tubes - 1) :
              display_buffer[idx + 1] =
                  NumberTube(num_tubes, idx, Abs(frame.number), frame.color,
                             frame.leading_zeros, frame.dimming)

C8_Witness ==
    /\ SetNumberDone
    /\ frame.leading_zeros
    /\ frame.number = 7
    /\ frame.color = EASY_NIXIE_RED
    /\ num_tubes = 2
    /\ display_buffer[1] = <<0, EASY_NIXIE_RED, TRUE, FALSE, frame.dimming>>
    /\ ncalls = 3

----------------------------------------------------------------------------
\* C9: set_tube always returns normally; with an index outside 0..N-1 the buffer is
\* left as it was, and with an index inside it exactly that entry becomes the given
\* state while every other entry stays.
C9_SetTubeEffect ==
    [][pc = "set_tube" =>
          /\ pc' = "ret"
          /\ Len(display_buffer') = num_tubes
          /\ \A idx \in 0..(num_tubes - 1) :
                display_buffer'[idx + 1] =
                    IF idx = frame.tube_index
                    THEN <<frame.number, frame.color, frame.voltage, frame.comma,
                           frame.dimming>>
                    ELSE display_buffer[idx + 1]]_vars

C9_Witness ==
    /\ pc = "ret"
    /\ frame.op = "set_tube"
    /\ frame.tube_index = -1
    /\ num_tubes = 2
    /\ display_buffer[2][1] = 2
    /\ display_buffer[2] # <<frame.number, frame.color, frame.voltage, frame.comma,
                             frame.dimming>>

----------------------------------------------------------------------------
\* C10: when clear() has completed, every buffer entry is blank, WHITE, voltage on,
\* no comma, brightness 0; one render was performed (16*N clock pulses, then one
\* latch pulse); the outputs of every tube encode that default state; and with the
\* PWM backend the duty cycle is 0.
C10_ClearResult ==
    (pc = "ret" /\ frame.op = "clear") =>
        /\ Len(display_buffer) = num_tubes
        /\ \A p \in 1..num_tubes : display_buffer[p] = DefaultTube
        /\ Len(LineEvents) = 16 * num_tubes + 2
        /\ LineEvents = RenderEvents([p \in 1..num_tubes |-> DefaultTube])
        /\ \A idx \in 0..(num_tubes - 1) : TubeOf(latched, idx) = TubeBits(DefaultTube)
        /\ dimming_available => out_en_pwm = 0

C10_Witness ==
    /\ pc = "ret"
    /\ frame.op = "clear"
    /\ num_tubes = 2
    /\ dimming_available
    /\ ncalls = 3

----------------------------------------------------------------------------
\* The byte on eight register outputs, bit 0 at position first.
ByteOf(bits, first) ==
    LET m(k) == bits[first + k] * (2 ^ k)
    IN  m(0) + m(1) + m(2) + m(3) + m(4) + m(5) + m(6) + m(7)

\* The digit byte and the control byte on the outputs of tube idx.
LatchedDigit(idx) == ByteOf(latched, 16 * idx + 1)
LatchedControl(idx) == ByteOf(latched, 16 * idx + 9)

Flag(b) == IF b THEN 1 ELSE 0

\* What a tube state shows: every digit value from 10 up is the blank tube.
Visual(t) == <<IF t[1] >= BLANK THEN BLANK ELSE t[1], t[2], t[3], t[4]>>
VisualStates == (0..BLANK) \X Colors \X BOOLEAN \X BOOLEAN

\* The color bits (of bits 2..4) each color is to clear in the control byte.
ClearedBits(color) ==
    CASE color = EASY_NIXIE_RED   -> {4}
      [] color = EASY_NIXIE_GREEN -> {3}
      [] color = EASY_NIXIE_BLUE  -> {2}
      [] color = EASY_NIXIE_WHITE -> {2, 3, 4}
      [] color = EASY_NIXIE_RuB   -> {2, 4}
      [] color = EASY_NIXIE_RuG   -> {3, 4}
      [] color = EASY_NIXIE_BuG   -> {2, 3}

\* C11: after a render the registers of every tube hold, for a buffered digit in
\* 0..7, the digit byte with exactly bit `digit` set and a control byte with neither
\* flag bit (bits 0, 1) set; for 8, digit byte 0 and flag bit 0 alone; for 9, digit
\* byte 0 and flag bit 1 alone; for blank (any value from 10 up), digit byte 0 and
\* neither flag bit; whatever the color, voltage and comma.
C11_DigitEncoding ==
    RenderDone =>
        \A idx \in 0..(num_tubes - 1) :
            LET digit == display_buffer[idx + 1][1]
                dg == LatchedDigit(idx)
                f0 == Bit(LatchedControl(idx), 0)
                f1 == Bit(LatchedControl(idx), 1)
            IN  /\ digit \in 0..7 => (dg = 2 ^ digit /\ f0 = 0 /\ f1 = 0)
                /\ digit = 8 => (dg = 0 /\ f0 = 1 /\ f1 = 0)
                /\ digit = 9 => (dg = 0 /\ f0 = 0 /\ f1 = 1)
                /\ digit >= 10 => (dg = 0 /\ f0 = 0 /\ f1 = 0)

C11_Witness ==
    /\ RenderDone
    /\ num_tubes = 2
    /\ display_buffer[2][1] = 9
    /\ display_buffer[2][2] = EASY_NIXIE_RuB
    /\ LatchedDigit(1) = 0
    /\ Bit(LatchedControl(1), 1) = 1
    /\ display_buffer[1][1] = BLANK

----------------------------------------------------------------------------
\* C12: after a render the color bits (2..4) of every tube's control byte are the
\* three bits of the base 00011100 less the fixed set its color clears; the seven
\* sets differ pairwise; and with the digit, voltage and comma of the tube kept, no
\* other color encodes to the control byte the tube holds.
C12_ColorEncoding ==
    RenderDone =>
        \A idx \in 0..(num_tubes - 1) :
            LET t == display_buffer[idx + 1]
                ctl == LatchedControl(idx)
            IN  /\ \A b \in 2..4 : Bit(ctl, b) = IF b \in ClearedBits(t[2]) THEN 0 ELSE 1
                /\ \A c \in Colors \ {t[2]} :
                      /\ ClearedBits(c) # ClearedBits(t[2])
                      /\ SendTubeControl(t[1], c, t[3], t[4]) # ctl

C12_Witness ==
    /\ RenderDone
    /\ num_tubes = 2
    /\ display_buffer[2][2] = EASY_NIXIE_RuG
    /\ display_buffer[2][1] = 4
    /\ Bit(LatchedControl(1), 2) = 1
    /\ Bit(LatchedControl(1), 3) = 0
    /\ Bit(LatchedControl(1), 4) = 0
    /\ display_buffer[1][2] = EASY_NIXIE_WHITE

----------------------------------------------------------------------------
\* C13: after a render bit 5 of every tube's control byte is set exactly if its
\* voltage flag is on and bit 6 exactly if its comma flag is on, whatever the digit,
\* the color and the other flag; with the flags changed the encoder gives a control
\* byte differing in bits 5 and 6 at most; and two tubes of the chain that differ in
\* these flags alone hold the same digit byte and the same other control bits.
C13_VoltageAndCommaBits ==
    RenderDone =>
        \A idx \in 0..(num_tubes - 1) :
            LET t == display_buffer[idx + 1]
                ctl == LatchedControl(idx)
            IN  /\ Bit(ctl, 5) = Flag(t[3])
                /\ Bit(ctl, 6) = Flag(t[4])
                /\ \A voltage \in BOOLEAN, comma \in BOOLEAN :
                      LET other == SendTubeControl(t[1], t[2], voltage, comma)
                      IN  /\ Bit(other, 5) = Flag(voltage)
                          /\ Bit(other, 6) = Flag(comma)
                          /\ \A b \in {0, 1, 2, 3, 4, 7} : Bit(other, b) = Bit(ctl, b)
                /\ \A idx2 \in 0..(num_tubes - 1) :
                      LET t2 == display_buffer[idx2 + 1]
                      IN  (t2[1] = t[1] /\ t2[2] = t[2]) =>
                              /\ LatchedDigit(idx2) = LatchedDigit(idx)
                              /\ \A b \in {0, 1, 2, 3, 4, 7} :
                                    Bit(LatchedControl(idx2), b) = Bit(ctl, b)

C13_Witness ==
    /\ RenderDone
    /\ num_tubes = 2
    /\ display_buffer[2] = <<BLANK, EASY_NIXIE_WHITE, FALSE, TRUE, 64>>
    /\ display_buffer[1] = DefaultTube
    /\ LatchedControl(1) = 64
    /\ LatchedControl(0) = 32

----------------------------------------------------------------------------
\* C14: when the PWM output could not be acquired in the constructor, the driver is
\* constructed with the enable line driven high as a digital output, and through
\* every sequence of set_tube, set_number, set_nixie, render and clear calls with
\* any brightness the enable line stays high and no PWM duty is written, up to and
\* including the return of each call.
C14_FallbackKeepsEnableHigh ==
    ~dimming_available =>
        /\ out_en = "high"
        /\ out_en_pwm = NoPWM
        /\ \A k \in 1..Len(wire) : wire[k][1] # "pwm"

C14_Witness ==
    /\ ~dimming_available
    /\ RenderDone
    /\ num_tubes = 2
    /\ display_buffer[1][5] = 128
    /\ display_buffer[2][5] = 255
    /\ ncalls = 3

----------------------------------------------------------------------------
LatchInProgress == pc \in {"latch", "latch_high"}

\* C15 as claimed: in every reachable state after construction in which no latch()
\* is in progress, the latch line is high.
C15_LatchIdleHigh == ~LatchInProgress => stcp

\* C15, amended: the constructor leaves the latch line low, and it stays low until
\* the first latch(); latch() drives the line low and then high and returns with it
\* high; no other step writes the line.  So from the return of the first latch()
\* on, the line is high whenever no latch() is in progress.
C15_LatchHighOnceLatched ==
    [][/\ pc = "latch" => ~stcp'
       /\ pc = "latch_high" => (stcp' /\ pc' = "ret")
       /\ ~LatchInProgress => stcp' = stcp]_vars

C15_Witness ==
    /\ pc = "ret"
    /\ frame.op = "set_nixie"
    /\ stcp
    /\ ncalls = 3

----------------------------------------------------------------------------
\* C16: slow_shift_out of any byte value raises the clock exactly 8 times; the data
\* line at the k-th rising edge (k = 0..7) is bit 7-k of the value; the data line is
\* written only while the clock is low; the clock is low when the call returns; and
\* the call leaves the latch line, the enable line and the outputs as they were.
C16_ShiftOutBitOrder ==
    [][frame.op = "slow_shift_out" =>
          /\ UNCHANGED <<stcp, latched, out_en, out_en_pwm>>
          /\ pc = "shift_data" => ~shcp
          /\ dsin' # dsin => (~shcp /\ ~shcp')
          /\ Len(wire') <= 8
          /\ \A k \in 1..Len(wire') : wire'[k] = <<"clk", Bit(frame.data_byte, 8 - k)>>
          /\ pc' = "ret" => (Len(wire') = 8 /\ ~shcp')]_vars

\* The steps of slow_shift_out against its one-step form: called on the driver as
\* constructed, the eight passes leave the lines and the chain as slow_shift_out
\* applied to the constructed state does.
ShiftStepsAsOneStep ==
    (pc = "ret" /\ frame.op = "slow_shift_out" /\ ncalls = 1) =>
        \E b \in PowerUpBits :
            LET h0 == [HW EXCEPT !.shcp = FALSE, !.dsin = FALSE, !.wire = <<>>,
                                 !.chain = [k \in 1..(16 * num_tubes) |-> b]]
            IN  slow_shift_out(h0, frame.data_byte) = HW

C16_Witness ==
    /\ pc = "ret"
    /\ frame.op = "slow_shift_out"
    /\ frame.data_byte = 165
    /\ stcp
    /\ dsin

----------------------------------------------------------------------------
\* C17: set_number of a negative value returns normally and leaves exactly the
\* buffer that set_number of its absolute value leaves, for every chain length,
\* color, leading_zeros and brightness.
C17_NegativeAsAbsolute ==
    (SetNumberDone /\ frame.number < 0) =>
        display_buffer = SetNumberBuffer(display_buffer, num_tubes, -frame.number,
                             frame.color, frame.leading_zeros, frame.dimming)

C17_Witness ==
    /\ SetNumberDone
    /\ frame.number = -7
    /\ frame.leading_zeros
    /\ num_tubes = 2
    /\ display_buffer[1][1] = 0
    /\ display_buffer[2][1] = 7

----------------------------------------------------------------------------
\* C18: with the PWM backend the duty cycle a brightness level is turned into, by
\* set_nixie and by a render alike, lies in 0..65535, is 0 for level 0 and 65535 for
\* level 255, is the level's share of 65535 rounded down, and is no less than the
\* duty cycle of any lower level; every level 0..255 is accepted.
C18_DutyLinear ==
    (dimming_available /\ pc = "ret" /\ (frame.op = "set_nixie" \/ Rendering)) =>
        LET level == IF Rendering THEN display_buffer[1][5] ELSE frame.dimming
        IN  /\ out_en_pwm \in 0..65535
            /\ level = 0 => out_en_pwm = 0
            /\ level = 255 => out_en_pwm = 65535
            /\ 255 * out_en_pwm <= 65535 * level
            /\ 65535 * level < 255 * (out_en_pwm + 1)
            /\ \A lower \in Levels : lower <= level => DutyCycle(lower) <= out_en_pwm

C18_Witness ==
    /\ dimming_available
    /\ RenderDone
    /\ display_buffer[1][5] = 255
    /\ out_en_pwm = 65535

----------------------------------------------------------------------------
\* C19: for the same arguments set_nixie does what one pass of the render loop does
\* for a tube holding them: it puts the same duty cycle on the enable line (with the
\* PWM backend) and shifts the same two bytes in the same order, control byte then
\* digit byte; it issues no latch pulse, leaves the outputs of the tubes as they
\* were, and does not modify the display buffer.
C19_SetNixieAsOnePass ==
    [][pc = "set_nixie" =>
          LET t == <<frame.number, frame.color, frame.voltage, frame.comma, frame.dimming>>
              pass == UpdateDisplayPass(HW, <<t>>, 0, dimming_available)
          IN  /\ wire' = pass.wire
              /\ chain' = pass.chain
              /\ out_en_pwm' = pass.pwm
              /\ LineEvents' = TubeClocks(t)
              /\ UNCHANGED <<stcp, latched, display_buffer>>
              /\ pc' = "ret"]_vars

C19_Witness ==
    /\ pc = "ret"
    /\ frame.op = "set_nixie"
    /\ frame.number = 9
    /\ frame.color = EASY_NIXIE_RuB
    /\ frame.voltage
    /\ frame.comma
    /\ dimming_available
    /\ out_en_pwm = DutyCycle(64)
    /\ num_tubes = 2
    /\ TubeOf(chain, 0) = TubeBits(<<9, EASY_NIXIE_RuB, TRUE, TRUE>>)
    /\ chain # latched

----------------------------------------------------------------------------
\* C20: the encoding is injective on the visual states: after a render the pair
\* (control byte, digit byte) a tube holds is the encoding of the visual state
\* buffered for it and of no other; in the control byte bits 0..1 depend on the
\* digit alone, bits 2..4 on the color alone, bit 5 is the voltage flag, bit 6 the
\* comma flag, and bit 7 is 0.
C20_EncodingInjective ==
    RenderDone =>
        \A idx \in 0..(num_tubes - 1) :
            LET t == display_buffer[idx + 1]
                ctl == LatchedControl(idx)
                dg == LatchedDigit(idx)
            IN  /\ { v \in VisualStates :
                        /\ SendTubeDigit(v[1]) = dg
                        /\ SendTubeControl(v[1], v[2], v[3], v[4]) = ctl } = {Visual(t)}
                /\ ctl % 4 = (IF t[1] = 8 THEN 1 ELSE IF t[1] = 9 THEN 2 ELSE 0)
                /\ {b \in 2..4 : Bit(ctl, b) = 0} = ClearedBits(t[2])
                /\ Bit(ctl, 5) = Flag(t[3])
                /\ Bit(ctl, 6) = Flag(t[4])
                /\ Bit(ctl, 7) = 0

C20_Witness ==
    /\ RenderDone
    /\ num_tubes = 2
    /\ display_buffer[2][1] = 7
    /\ display_buffer[2][2] = EASY_NIXIE_BuG
    /\ display_buffer[2][3] = FALSE
    /\ display_buffer[2][4] = TRUE
    /\ LatchedDigit(1) = 128
    /\ LatchedControl(1) = 80
    /\ LatchedControl(0) # LatchedControl(1)

====
